---- MODULE Spec2Model ----
(***************************************************************************)
(* Session registry and output routing of the web terminal server.         *)
(*                                                                         *)
(* The repository holds two variants of the server:                        *)
(*   src/server.js         owner-affinity routing (sessions private to a   *)
(*                         user, output sent to the user's bound socket);  *)
(*   src/unnamed/part_000  broadcast routing (sessions shared by every     *)
(*                         connection, with an output history buffer).     *)
(* A deployment runs one of them: `variant` is fixed by Init and selects   *)
(* which file's handlers are enabled.                                      *)
(*                                                                         *)
(* Node runs every handler to completion on one event loop, so each        *)
(* handler (connection, a socket event, a pty data or exit callback) is    *)
(* one atomic action.  What a handler sends (socket.emit, io.emit) and     *)
(* the pty calls it makes (write, resize, kill) are its outputs: for each  *)
(* handler an operator gives them as the handler computes them from the    *)
(* state it runs in, and the action gives the state it leaves.             *)
(***************************************************************************)
EXTENDS Integers, Sequences, FiniteSets, TLC

(* ------------------------------ bounds --------------------------------- *)

\* socket ids handed out over a run (socket.io gives every connection a fresh id)
MaxSockets == 2

\* sessions spawned over a run of the owner-affinity variant (termCounter
\* never exceeds it)
MaxTerms == 2

\* sessions spawned over a run of the broadcast variant: three, so that two
\* sessions can remain when one exits
MaxSharedTerms == 3

\* characters the processes emit over a run of the broadcast variant, all
\* sessions together
MaxEmitted == 3

\* MAX_HISTORY_SIZE, the capacity of terminal.history: part_000:28 sets
\* 100000; the model takes a capacity small enough for the truncation to
\* happen within MaxEmitted
MAX_HISTORY_SIZE == 2

(* ------------------------------ inputs --------------------------------- *)

\* absent value: undefined / null / a deleted key
Null == 0

\* an absent (undefined) user id
NoUser == ""

\* socket.handshake.query.userId: absent (""), or a string
Handshakes == {"", "default", "alice"}

\* 'user_' + (socket.handshake.query.userId || 'default')
resolveUser(h) == IF h = "" THEN "user_default" ELSE "user_" \o h

Users == {resolveUser(h) : h \in Handshakes}

SocketIds == 1..MaxSockets

\* term ids of server.js: term_1 .. term_MaxTerms are spawned; a request may
\* name any of them, or an id that no session ever has
UnknownTermId == MaxTerms + 1

OwnerTermIds == 1..MaxTerms

OwnerRequestTermIds == OwnerTermIds \cup {UnknownTermId}

\* term ids of part_000: term_1 .. term_MaxSharedTerms are spawned
UnknownSharedTermId == MaxSharedTerms + 1

SharedTermIds == 1..MaxSharedTerms

SharedRequestTermIds == SharedTermIds \cup {UnknownSharedTermId}

\* the term ids of either variant
TermIds == OwnerTermIds \cup SharedTermIds

RequestTermIds == OwnerRequestTermIds \cup SharedRequestTermIds

\* the lengths of the chunks a process emits: short ones, and one longer
\* than the history
ChunkLengths == {1, 2, MAX_HISTORY_SIZE + 1}

\* the chunk of n characters a process emits after it has emitted k:
\* the i-th character a process emits is written i, so that every position
\* of its output is told apart
chunk(k, n) == [i \in 1..n |-> k + i]

(* ------------------------------- state --------------------------------- *)

VARIABLES
  variant,         \* "owner" (server.js) or "broadcast" (part_000)
  sockets,         \* io.sockets.sockets: ids of the open connections
  nextSocket,      \* the id the next connection gets
  terminals,       \* termId -> { userId } (owner) or { history } (broadcast)
  termCounter,
  userTerminals,   \* owner: userId -> list of termIds
  activeTerminals, \* owner: socketId -> termId
  socketToUser,    \* owner: socketId -> userId; for an open socket this is also
                   \* the const userId of its handlers' closure (server.js:128)
  userToSocket,    \* owner: userId -> socketId, Null when deleted
  terminalList,    \* broadcast: list of termIds
  activeTermId,    \* broadcast: the shared active termId, Null at start
  pty,             \* each spawned pty: its state ("running", "killed", "exited")
                   \* and the userId its onData/onExit callbacks close over
  emitted          \* broadcast: everything each session's process has emitted
                   \* so far, the reference terminal.history is compared with

vars == <<variant, sockets, nextSocket, terminals, termCounter,
          userTerminals, activeTerminals, socketToUser, userToSocket,
          terminalList, activeTermId, pty, emitted>>

\* the state the owner-affinity server keeps
ownerVars == <<terminals, termCounter, userTerminals, activeTerminals,
               socketToUser, userToSocket>>

(* ------------------------------ helpers -------------------------------- *)

\* socket.emit / io.emit: `to` is a socket id, or ALL for io.emit
ALL == 0

Ev(to, ev, termId, flag, data, termIds, active) ==
  [to |-> to, ev |-> ev, termId |-> termId, flag |-> flag, data |-> data,
   termIds |-> termIds, active |-> active]

Call(op, termId) == [op |-> op, termId |-> termId]

\* Array.prototype.indexOf, 0 when absent
RECURSIVE indexOfFrom(_, _, _)
indexOfFrom(list, x, i) ==
  IF i > Len(list) THEN 0
  ELSE IF list[i] = x THEN i
  ELSE indexOfFrom(list, x, i + 1)

indexOf(list, x) == indexOfFrom(list, x, 1)

\* const idx = list.indexOf(x); if (idx > -1) list.splice(idx, 1)
spliceOut(list, x) ==
  LET idx == indexOf(list, x)
  IN IF idx > 0
       THEN SubSeq(list, 1, idx - 1) \o SubSeq(list, idx + 1, Len(list))
       ELSE list

\* delete obj[key]
deleteKey(f, k) == [x \in (DOMAIN f) \ {k} |-> f[x]]

\* obj[key] = value
setKey(f, k, v) == [x \in (DOMAIN f) \cup {k} |-> IF x = k THEN v ELSE f[x]]

\* String.prototype.slice(-n)
sliceLast(s, n) == IF Len(s) > n THEN SubSeq(s, Len(s) - n + 1, Len(s)) ELSE s

\* total of what the processes have emitted
RECURSIVE totalEmitted(_, _)
totalEmitted(e, ids) ==
  IF ids = {} THEN 0
  ELSE LET t == CHOOSE x \in ids : TRUE
       IN Len(e[t]) + totalEmitted(e, ids \ {t})

(* ------------------------------- Init ---------------------------------- *)

Init ==
  /\ variant \in {"owner", "broadcast"}
  /\ sockets = {}
  /\ nextSocket = 1
  /\ terminals = << >>
  /\ termCounter = 0
  /\ userTerminals = [u \in Users |-> << >>]
  /\ activeTerminals = << >>
  /\ socketToUser = << >>
  /\ userToSocket = [u \in Users |-> Null]
  /\ terminalList = << >>
  /\ activeTermId = Null
  /\ pty = << >>
  /\ emitted = << >>

(* ------------------- owner-affinity variant: server.js ------------------ *)

\* userToSocket[userId] = socketId
bindConnection(u2s, userId, socketId) == [u2s EXCEPT ![userId] = socketId]

\* unbindConnection without the check of the binding: delete userToSocket[userId]
unbindAlways(u2s, userId, socketId) ==
  IF userId # NoUser THEN [u2s EXCEPT ![userId] = Null] ELSE u2s

\* a disconnect that leaves userToSocket alone
unbindNever(u2s, userId, socketId) == u2s

\* if (userId && userToSocket[userId] === socketId) delete userToSocket[userId]
unbindConnection(u2s, userId, socketId) ==
  IF userId # NoUser /\ u2s[userId] = socketId
    THEN [u2s EXCEPT ![userId] = Null]
    ELSE u2s

\* a target chosen without the user's binding: any open connection
targetAnyOpen(u2s, open, userId) ==
  IF open # {} THEN CHOOSE s \in open : TRUE ELSE Null

\* const currentSocketId = userToSocket[userId];
\* if (currentSocketId) { targetSocket = io.sockets.sockets.get(currentSocketId);
\*                        if (targetSocket) ... }
\* the socket an onData / onExit callback emits to, Null when it emits nothing
targetSocket(u2s, open, userId) ==
  LET currentSocketId == u2s[userId]
  IN IF currentSocketId # Null /\ currentSocketId \in open
       THEN currentSocketId
       ELSE Null

\* createTerminal without line 87: the binding stays as the caller left it
bindOnCreateKeeps(u2s, userId, socketId) == u2s

\* the binding createTerminal leaves: userToSocket[userId] = socket.id
bindOnCreate(u2s, userId, socketId) == [u2s EXCEPT ![userId] = socketId]

\* a createTerminal that numbers a session by the sessions registered
\* (termId = 'term_' + (registered + 1)) instead of by ++termCounter
createTerminalCountsRegistered(userId, socketId, u2s) ==
  LET termId == Cardinality(DOMAIN terminals) + 1
  IN /\ termCounter < MaxTerms
     /\ termCounter' = termCounter + 1
     /\ terminals' = setKey(terminals, termId, [id |-> termId, userId |-> userId])
     /\ userTerminals' = [userTerminals EXCEPT ![userId] = Append(@, termId)]
     /\ activeTerminals' = setKey(activeTerminals, socketId, termId)
     /\ userToSocket' = bindOnCreate(u2s, userId, socketId)
     /\ pty' = setKey(pty, termId, [state |-> "running", userId |-> userId])
     /\ UNCHANGED emitted

\* createTerminal(userId, socket): spawn a pty and register the session.
\* u2s is userToSocket as the caller left it.  pty.spawn is taken to succeed.
createTerminal(userId, socketId, u2s) ==
  LET termId == termCounter + 1
  IN /\ termCounter < MaxTerms
     /\ termCounter' = termId
     /\ terminals' = setKey(terminals, termId, [id |-> termId, userId |-> userId])
     /\ userTerminals' = [userTerminals EXCEPT ![userId] = Append(@, termId)]
     /\ activeTerminals' = setKey(activeTerminals, socketId, termId)
     /\ userToSocket' = bindOnCreate(u2s, userId, socketId)
     /\ pty' = setKey(pty, termId, [state |-> "running", userId |-> userId])
     /\ UNCHANGED emitted

\* existingTerms.forEach(termId => { if (terminals[termId])
\*   socket.emit('terminal-created', { termId, isRestored: true }) })
RECURSIVE restoredEvents(_, _, _)
restoredEvents(socketId, existingTerms, reg) ==
  IF existingTerms = << >> THEN << >>
  ELSE LET termId == Head(existingTerms)
           rest == restoredEvents(socketId, Tail(existingTerms), reg)
       IN IF termId \in DOMAIN reg
            THEN <<Ev(socketId, "terminal-created", termId, "isRestored",
                      << >>, << >>, Null)>> \o rest
            ELSE rest

\* what io.on('connection') of server.js emits to the connecting socket
ConnectionEmits(h) ==
  LET socketId == nextSocket
      userId == resolveUser(h)
      existingTerms == userTerminals[userId]
  IN IF Len(existingTerms) > 0
       THEN restoredEvents(socketId, existingTerms, terminals)
              \o <<Ev(socketId, "terminals-restored", Null, "", << >>,
                      existingTerms, existingTerms[1])>>
       ELSE <<Ev(socketId, "terminal-created", termCounter + 1, "isInitial",
                 << >>, << >>, Null)>>

\* a connection handler that spawns a default session on every connect
ConnectionAlwaysCreates(h) ==
  LET socketId == nextSocket
      userId == resolveUser(h)
  IN /\ variant = "owner"
     /\ nextSocket <= MaxSockets
     /\ nextSocket' = nextSocket + 1
     /\ sockets' = sockets \cup {socketId}
     /\ socketToUser' = setKey(socketToUser, socketId, userId)
     /\ createTerminal(userId, socketId,
                       bindConnection(userToSocket, userId, socketId))
     /\ UNCHANGED <<variant, terminalList, activeTermId>>

\* io.on('connection') of server.js
Connection(h) ==
  LET socketId == nextSocket
      userId == resolveUser(h)
      existingTerms == userTerminals[userId]
  IN /\ variant = "owner"
     /\ nextSocket <= MaxSockets
     /\ nextSocket' = nextSocket + 1
     /\ sockets' = sockets \cup {socketId}
     /\ socketToUser' = setKey(socketToUser, socketId, userId)
     /\ IF Len(existingTerms) > 0
          THEN /\ userToSocket' = bindConnection(userToSocket, userId, socketId)
               /\ activeTerminals' = setKey(activeTerminals, socketId, existingTerms[1])
               /\ UNCHANGED <<terminals, termCounter, userTerminals, pty, emitted>>
          ELSE createTerminal(userId, socketId,
                              bindConnection(userToSocket, userId, socketId))
     /\ UNCHANGED <<variant, terminalList, activeTermId>>

\* what socket.on('create-terminal') emits
CreateTerminalEmits(socketId) ==
  <<Ev(socketId, "terminal-created", termCounter + 1, "", << >>, << >>, Null)>>

\* socket.on('create-terminal')
CreateTerminal(socketId) ==
  LET userId == socketToUser[socketId]
  IN /\ variant = "owner"
     /\ socketId \in sockets
     /\ createTerminal(userId, socketId, userToSocket)
     /\ UNCHANGED <<variant, sockets, nextSocket, socketToUser,
                    terminalList, activeTermId>>

\* what socket.on('switch-terminal') emits
SwitchTerminalEmits(socketId, termId) ==
  IF activeTerminals[socketId] # termId
    THEN <<Ev(socketId, "terminal-switched", termId, "", << >>, << >>, Null)>>
    ELSE << >>

\* socket.on('switch-terminal')
SwitchTerminal(socketId, termId) ==
  /\ variant = "owner"
  /\ socketId \in sockets
  /\ activeTerminals' = IF activeTerminals[socketId] # termId
                          THEN setKey(activeTerminals, socketId, termId)
                          ELSE activeTerminals
  /\ UNCHANGED <<variant, sockets, nextSocket, terminals, termCounter,
                 userTerminals, socketToUser, userToSocket, terminalList,
                 activeTermId, pty, emitted>>

\* a check that only looks the session up: if (terminal)
authorizedAnyOwner(reg, termId, userId) == termId \in DOMAIN reg

\* const terminal = terminals[termId]; if (terminal && terminal.userId === userId)
authorized(reg, termId, userId) ==
  /\ termId \in DOMAIN reg
  /\ reg[termId].userId = userId

\* the pty calls socket.on('terminal-input') makes
TerminalInputCalls(socketId, termId) ==
  IF authorized(terminals, termId, socketToUser[socketId])
    THEN <<Call("write", termId)>>
    ELSE << >>

\* socket.on('terminal-input')
TerminalInput(socketId, termId) ==
  /\ variant = "owner"
  /\ socketId \in sockets
  /\ UNCHANGED vars

\* the pty calls socket.on('terminal-resize') makes
TerminalResizeCalls(socketId, termId) ==
  IF authorized(terminals, termId, socketToUser[socketId])
    THEN <<Call("resize", termId)>>
    ELSE << >>

\* socket.on('terminal-resize')
TerminalResize(socketId, termId) ==
  /\ variant = "owner"
  /\ socketId \in sockets
  /\ UNCHANGED vars

\* term.kill(): the process is signalled; its exit event comes later
kill(p, termId) ==
  IF p[termId].state = "running"
    THEN [p EXCEPT ![termId].state = "killed"]
    ELSE p

\* the pty calls socket.on('close-terminal') makes
CloseTerminalCalls(socketId, termId) ==
  IF authorized(terminals, termId, socketToUser[socketId])
    THEN <<Call("kill", termId)>>
    ELSE << >>

\* a close handler that deregisters the session itself, without waiting for
\* the exit event
CloseTerminalDeregisters(socketId, termId) ==
  LET ok == CloseTerminalCalls(socketId, termId) # << >>
  IN /\ variant = "owner"
     /\ socketId \in sockets
     /\ pty' = IF ok THEN kill(pty, termId) ELSE pty
     /\ terminals' = IF ok THEN deleteKey(terminals, termId) ELSE terminals
     /\ userTerminals' =
          IF ok THEN [userTerminals EXCEPT ![socketToUser[socketId]] =
                        spliceOut(@, termId)]
                ELSE userTerminals
     /\ UNCHANGED <<variant, sockets, nextSocket, termCounter, activeTerminals,
                    socketToUser, userToSocket, terminalList, activeTermId,
                    emitted>>

\* socket.on('close-terminal')
CloseTerminal(socketId, termId) ==
  /\ variant = "owner"
  /\ socketId \in sockets
  /\ pty' = IF CloseTerminalCalls(socketId, termId) # << >>
              THEN kill(pty, termId)
              ELSE pty
  /\ UNCHANGED <<variant, sockets, nextSocket, ownerVars,
                 terminalList, activeTermId, emitted>>

\* what socket.on('get-terminals') emits
GetTerminalsEmits(socketId) ==
  LET terms == userTerminals[socketToUser[socketId]]
      activeTerm == activeTerminals[socketId]
  IN <<Ev(socketId, "terminals-list", Null, "", << >>, terms, activeTerm)>>

\* socket.on('get-terminals')
GetTerminals(socketId) ==
  /\ variant = "owner"
  /\ socketId \in sockets
  /\ UNCHANGED vars

\* a disconnect handler that also purges the user's sessions (the
\* non-persistent server): every session of the user is removed from the
\* registry and the user's list is emptied
DisconnectPurges(socketId) ==
  LET userId == socketToUser[socketId]
  IN /\ variant = "owner"
     /\ socketId \in sockets
     /\ sockets' = sockets \ {socketId}
     /\ socketToUser' = deleteKey(socketToUser, socketId)
     /\ activeTerminals' = deleteKey(activeTerminals, socketId)
     /\ userToSocket' = unbindConnection(userToSocket, userId, socketId)
     /\ terminals' = [t \in {x \in DOMAIN terminals : terminals[x].userId # userId}
                        |-> terminals[t]]
     /\ userTerminals' = [userTerminals EXCEPT ![userId] = << >>]
     /\ UNCHANGED <<variant, nextSocket, termCounter, terminalList, activeTermId,
                    pty, emitted>>

\* socket.on('disconnect'): socket.io has removed the socket from
\* io.sockets.sockets when the handler runs
Disconnect(socketId) ==
  LET userId == IF socketId \in DOMAIN socketToUser
                  THEN socketToUser[socketId]
                  ELSE NoUser
  IN /\ variant = "owner"
     /\ socketId \in sockets
     /\ sockets' = sockets \ {socketId}
     /\ socketToUser' = deleteKey(socketToUser, socketId)
     /\ activeTerminals' = deleteKey(activeTerminals, socketId)
     /\ userToSocket' = unbindConnection(userToSocket, userId, socketId)
     /\ UNCHANGED <<variant, nextSocket, terminals, termCounter,
                    userTerminals, terminalList, activeTermId, pty, emitted>>

\* a pty whose process has not exited
alive(termId) == termId \in DOMAIN pty /\ pty[termId].state # "exited"

\* what term.onData of server.js emits when the process of termId emits data
OnDataEmits(termId, data) ==
  LET target == targetSocket(userToSocket, sockets, pty[termId].userId)
  IN IF target # Null
       THEN <<Ev(target, "terminal-output", termId, "", data, << >>, Null)>>
       ELSE << >>

\* term.onData of server.js: the process of termId emits n characters.
\* server.js keeps no record of output: the handler only emits.
OnData(termId, n) ==
  /\ variant = "owner"
  /\ alive(termId)
  /\ UNCHANGED vars

\* what term.onExit of server.js emits
OnExitEmits(termId) ==
  LET target == targetSocket(userToSocket, sockets, pty[termId].userId)
  IN IF target # Null
       THEN <<Ev(target, "terminal-closed", termId, "", << >>, << >>, Null)>>
       ELSE << >>

\* an exit handler that forgets delete terminals[termId]
OnExitKeepsRegistry(termId) ==
  LET userId == pty[termId].userId
  IN /\ variant = "owner"
     /\ alive(termId)
     /\ pty' = [pty EXCEPT ![termId].state = "exited"]
     /\ userTerminals' = [userTerminals EXCEPT ![userId] = spliceOut(@, termId)]
     /\ UNCHANGED <<variant, sockets, nextSocket, termCounter, terminals,
                    activeTerminals, socketToUser, userToSocket, terminalList,
                    activeTermId, emitted>>

\* term.onExit of server.js: the process of termId has exited (once per pty)
OnExit(termId) ==
  LET userId == pty[termId].userId
  IN /\ variant = "owner"
     /\ alive(termId)
     /\ pty' = [pty EXCEPT ![termId].state = "exited"]
     /\ userTerminals' = [userTerminals EXCEPT ![userId] = spliceOut(@, termId)]
     /\ terminals' = deleteKey(terminals, termId)
     /\ UNCHANGED <<variant, sockets, nextSocket, termCounter,
                    activeTerminals, socketToUser, userToSocket, terminalList,
                    activeTermId, emitted>>

(* ---------------------- broadcast variant: part_000 -------------------- *)

\* appendHistory that keeps the oldest characters: slice(0, MAX_HISTORY_SIZE)
appendHistoryKeepOldest(history, data) ==
  LET h == history \o data
  IN IF Len(h) > MAX_HISTORY_SIZE THEN SubSeq(h, 1, MAX_HISTORY_SIZE) ELSE h

\* terminal.history += data;
\* if (terminal.history.length > MAX_HISTORY_SIZE)
\*   terminal.history = terminal.history.slice(-MAX_HISTORY_SIZE)
appendHistory(history, data) ==
  LET h == history \o data
  IN IF Len(h) > MAX_HISTORY_SIZE THEN sliceLast(h, MAX_HISTORY_SIZE) ELSE h

\* createTerminal() of part_000: spawn a pty and register the shared session
createTerminalB ==
  LET termId == termCounter + 1
  IN /\ termCounter < MaxSharedTerms
     /\ termCounter' = termId
     /\ terminals' = setKey(terminals, termId, [id |-> termId, history |-> << >>])
     /\ terminalList' = Append(terminalList, termId)
     /\ activeTermId' = termId
     /\ pty' = setKey(pty, termId, [state |-> "running", userId |-> NoUser])
     /\ emitted' = setKey(emitted, termId, << >>)

\* terminalList.forEach(termId => { const terminal = terminals[termId];
\*   if (terminal) { socket.emit('terminal-created', { termId, isRestored: true });
\*     if (terminal.history) socket.emit('terminal-history', { termId, history }) } })
RECURSIVE restoredEventsB(_, _, _)
restoredEventsB(socketId, list, reg) ==
  IF list = << >> THEN << >>
  ELSE LET termId == Head(list)
           rest == restoredEventsB(socketId, Tail(list), reg)
       IN IF termId \in DOMAIN reg
            THEN <<Ev(socketId, "terminal-created", termId, "isRestored",
                      << >>, << >>, Null)>>
                 \o (IF reg[termId].history # << >>
                       THEN <<Ev(socketId, "terminal-history", termId, "",
                                 reg[termId].history, << >>, Null)>>
                       ELSE << >>)
                 \o rest
            ELSE rest

\* what io.on('connection') of part_000 emits
ConnectionEmitsB ==
  LET socketId == nextSocket
  IN IF Len(terminalList) > 0
       THEN restoredEventsB(socketId, terminalList, terminals)
              \o <<Ev(socketId, "terminals-restored", Null, "", << >>,
                      terminalList, activeTermId)>>
       ELSE <<Ev(ALL, "terminal-created", termCounter + 1, "isInitial",
                 << >>, << >>, Null)>>

\* io.on('connection') of part_000
ConnectionB ==
  /\ variant = "broadcast"
  /\ nextSocket <= MaxSockets
  /\ nextSocket' = nextSocket + 1
  /\ sockets' = sockets \cup {nextSocket}
  /\ IF Len(terminalList) > 0
       THEN UNCHANGED <<terminals, termCounter, terminalList, activeTermId, pty,
                        emitted>>
       ELSE createTerminalB
  /\ UNCHANGED <<variant, userTerminals, activeTerminals, socketToUser, userToSocket>>

\* what socket.on('create-terminal') of part_000 emits
CreateTerminalEmitsB(socketId) ==
  <<Ev(ALL, "terminal-created", termCounter + 1, "", << >>, << >>, Null)>>

\* socket.on('create-terminal') of part_000
CreateTerminalB(socketId) ==
  /\ variant = "broadcast"
  /\ socketId \in sockets
  /\ createTerminalB
  /\ UNCHANGED <<variant, sockets, nextSocket, userTerminals, activeTerminals,
                 socketToUser, userToSocket>>

\* what socket.on('switch-terminal') of part_000 emits
SwitchTerminalEmitsB(socketId, termId) ==
  <<Ev(socketId, "terminal-switched", termId, "", << >>, << >>, Null)>>

\* socket.on('switch-terminal') of part_000:
\* if (activeTermId !== termId) activeTermId = termId
SwitchTerminalB(socketId, termId) ==
  /\ variant = "broadcast"
  /\ socketId \in sockets
  /\ activeTermId' = IF activeTermId # termId THEN termId ELSE activeTermId
  /\ UNCHANGED <<variant, sockets, nextSocket, terminals, termCounter,
                 userTerminals, activeTerminals, socketToUser, userToSocket,
                 terminalList, pty, emitted>>

\* the pty calls socket.on('terminal-input') of part_000 makes
TerminalInputCallsB(socketId, termId) ==
  IF termId \in DOMAIN terminals THEN <<Call("write", termId)>> ELSE << >>

\* socket.on('terminal-input') of part_000
TerminalInputB(socketId, termId) ==
  /\ variant = "broadcast"
  /\ socketId \in sockets
  /\ UNCHANGED vars

\* the pty calls socket.on('terminal-resize') of part_000 makes
TerminalResizeCallsB(socketId, termId) ==
  IF termId \in DOMAIN terminals THEN <<Call("resize", termId)>> ELSE << >>

\* socket.on('terminal-resize') of part_000
TerminalResizeB(socketId, termId) ==
  /\ variant = "broadcast"
  /\ socketId \in sockets
  /\ UNCHANGED vars

\* the pty calls socket.on('close-terminal') of part_000 makes
CloseTerminalCallsB(socketId, termId) ==
  IF termId \in DOMAIN terminals THEN <<Call("kill", termId)>> ELSE << >>

\* socket.on('close-terminal') of part_000
CloseTerminalB(socketId, termId) ==
  /\ variant = "broadcast"
  /\ socketId \in sockets
  /\ pty' = IF CloseTerminalCallsB(socketId, termId) # << >>
              THEN kill(pty, termId)
              ELSE pty
  /\ UNCHANGED <<variant, sockets, nextSocket, terminals, termCounter,
                 userTerminals, activeTerminals, socketToUser, userToSocket,
                 terminalList, activeTermId, emitted>>

\* what socket.on('get-terminals') of part_000 emits
GetTerminalsEmitsB(socketId) ==
  <<Ev(socketId, "terminals-list", Null, "", << >>, terminalList, activeTermId)>>

\* socket.on('get-terminals') of part_000
GetTerminalsB(socketId) ==
  /\ variant = "broadcast"
  /\ socketId \in sockets
  /\ UNCHANGED vars

\* socket.on('disconnect') of part_000: it only logs
DisconnectB(socketId) ==
  /\ variant = "broadcast"
  /\ socketId \in sockets
  /\ sockets' = sockets \ {socketId}
  /\ UNCHANGED <<variant, nextSocket, terminals, termCounter, userTerminals,
                 activeTerminals, socketToUser, userToSocket, terminalList,
                 activeTermId, pty, emitted>>

\* what term.onData of part_000 emits: io.emit, when the session is registered
OnDataEmitsB(termId, data) ==
  IF termId \in DOMAIN terminals
    THEN <<Ev(ALL, "terminal-output", termId, "", data, << >>, Null)>>
    ELSE << >>

\* term.onData of part_000: the process of termId emits n characters
OnDataB(termId, n) ==
  LET data == chunk(Len(emitted[termId]), n)
  IN /\ variant = "broadcast"
     /\ alive(termId)
     /\ totalEmitted(emitted, DOMAIN emitted) + n <= MaxEmitted
     /\ emitted' = [emitted EXCEPT ![termId] = @ \o data]
     /\ terminals' = IF termId \in DOMAIN terminals
                       THEN [terminals EXCEPT
                               ![termId].history = appendHistory(@, data)]
                       ELSE terminals
     /\ UNCHANGED <<variant, sockets, nextSocket, termCounter, userTerminals,
                    activeTerminals, socketToUser, userToSocket, terminalList,
                    activeTermId, pty>>

\* what term.onExit of part_000 emits: io.emit
OnExitEmitsB(termId) ==
  <<Ev(ALL, "terminal-closed", termId, "", << >>, << >>, Null)>>

\* a fallback that takes the last session of the list instead of the first
nextActiveTakesLast(active, termId, list) ==
  IF active = termId
    THEN (IF Len(list) > 0 THEN list[Len(list)] ELSE Null)
    ELSE active

\* if (activeTermId === termId)
\*   activeTermId = terminalList.length > 0 ? terminalList[0] : null
\* with list the terminalList the splice has left
nextActive(active, termId, list) ==
  IF active = termId
    THEN (IF Len(list) > 0 THEN list[1] ELSE Null)
    ELSE active

\* term.onExit of part_000: the process of termId has exited (once per pty)
OnExitB(termId) ==
  /\ variant = "broadcast"
  /\ alive(termId)
  /\ pty' = [pty EXCEPT ![termId].state = "exited"]
  /\ terminalList' = spliceOut(terminalList, termId)
  /\ activeTermId' = nextActive(activeTermId, termId, terminalList')
  /\ terminals' = deleteKey(terminals, termId)
  /\ UNCHANGED <<variant, sockets, nextSocket, termCounter, userTerminals,
                 activeTerminals, socketToUser, userToSocket, emitted>>

(* ------------------------------- Next ---------------------------------- *)

NextOwner ==
  \/ \E h \in Handshakes : Connection(h)
  \/ \E s \in SocketIds : CreateTerminal(s)
  \/ \E s \in SocketIds, t \in OwnerRequestTermIds : SwitchTerminal(s, t)
  \/ \E s \in SocketIds, t \in OwnerRequestTermIds : TerminalInput(s, t)
  \/ \E s \in SocketIds, t \in OwnerRequestTermIds : TerminalResize(s, t)
  \/ \E s \in SocketIds, t \in OwnerRequestTermIds : CloseTerminal(s, t)
  \/ \E s \in SocketIds : GetTerminals(s)
  \/ \E s \in SocketIds : Disconnect(s)
  \/ \E t \in OwnerTermIds, n \in ChunkLengths : OnData(t, n)
  \/ \E t \in OwnerTermIds : OnExit(t)

NextBroadcast ==
  \/ ConnectionB
  \/ \E s \in SocketIds : CreateTerminalB(s)
  \/ \E s \in SocketIds, t \in SharedRequestTermIds : SwitchTerminalB(s, t)
  \/ \E s \in SocketIds, t \in SharedRequestTermIds : TerminalInputB(s, t)
  \/ \E s \in SocketIds, t \in SharedRequestTermIds : TerminalResizeB(s, t)
  \/ \E s \in SocketIds, t \in SharedRequestTermIds : CloseTerminalB(s, t)
  \/ \E s \in SocketIds : GetTerminalsB(s)
  \/ \E s \in SocketIds : DisconnectB(s)
  \/ \E t \in SharedTermIds, n \in ChunkLengths : OnDataB(t, n)
  \/ \E t \in SharedTermIds : OnExitB(t)

Next == NextOwner \/ NextBroadcast

Spec == Init /\ [][Next]_vars

(* ----------------------- reading states and outputs --------------------- *)

\* the largest element of a non-empty set of numbers
Max(S) == CHOOSE x \in S : \A y \in S : y <= x

\* the elements of a set of numbers in increasing order
RECURSIVE SortedSeq(_)
SortedSeq(S) ==
  IF S = {} THEN << >>
  ELSE LET m == Max(S) IN Append(SortedSeq(S \ {m}), m)

\* the events of a sequence that satisfy Test
Events(es, Test(_)) == {es[i] : i \in {j \in 1..Len(es) : Test(es[j])}}

\* how many times x occurs in a list
Count(list, x) == Cardinality({i \in 1..Len(list) : list[i] = x})

\* the open connections of user u (owner-affinity)
connectionsOf(u) == {s \in sockets : socketToUser[s] = u}

\* the sessions of user u whose process has not exited, told from the ptys
runningOf(u) == {t \in DOMAIN pty : alive(t) /\ pty[t].userId = u}

\* the step changes the state.  A step that changes nothing satisfies every
\* [A]_vars; a step property that compares many handlers is stated for the
\* steps that change the state, which is the same property.
StateChanges == vars' # vars

\* a connection could arrive now (the bound on socket ids is not reached)
CanConnect == nextSocket <= MaxSockets

(* -------------------------------- C1 ----------------------------------- *)

\* until some connection has disconnected, every user with open connections
\* is bound to one of them
C1_BoundWhileAllOpen ==
  (variant = "owner" /\ Cardinality(sockets) = nextSocket - 1) =>
    \A u \in Users :
      connectionsOf(u) # {} => userToSocket[u] \in connectionsOf(u)

\* C1: owner-affinity, connections of the same user in any interleaving of
\* their connects and disconnects.  A connect makes the connecting
\* connection the user's binding; while no connection has disconnected the
\* binding is one of the user's open connections; the disconnect of a
\* connection that is not the binding leaves userToSocket as it is, and a
\* disconnect changes userToSocket only by clearing the binding that equalled
\* the disconnecting connection's id.
C1_BindingRace ==
  [][ /\ \A h \in Handshakes :
           Connection(h) =>
             /\ userToSocket'[resolveUser(h)] = nextSocket
             /\ nextSocket \in sockets'
      /\ \A s \in SocketIds :
           Disconnect(s) =>
             LET u == socketToUser[s]
             IN /\ userToSocket[u] # s => userToSocket' = userToSocket
                /\ userToSocket[u] = s =>
                     userToSocket' = [userToSocket EXCEPT ![u] = Null]
      /\ C1_BoundWhileAllOpen'
    ]_vars

\* two connections of one user have connected, the second has disconnected
\* while the first was the binding, and the first still is the binding
C1_Witness ==
  /\ variant = "owner"
  /\ sockets = {1}
  /\ nextSocket = 3
  /\ \A t \in DOMAIN pty : pty[t].userId = socketToUser[1]
  /\ userToSocket[socketToUser[1]] = 1

(* -------------------------------- C2 ----------------------------------- *)

\* the id lists of the terminals-restored events among es
restoredLists(es) ==
  {e.termIds : e \in Events(es, LAMBDA e : e.ev = "terminals-restored")}

\* C2: owner-affinity.  When a user has N >= 1 running sessions and none of
\* the user's connections is open, the next connection with that user id
\* creates no session (termCounter, the registry and the session lists stay
\* as they are) and is sent exactly one terminals-restored event, whose id
\* list is the ids of those N running sessions in creation order.
C2_RestoreAfterDisconnect ==
  [][ \A h \in Handshakes :
        LET u == resolveUser(h)
        IN (Connection(h) /\ connectionsOf(u) = {} /\ runningOf(u) # {}) =>
             /\ termCounter' = termCounter
             /\ terminals' = terminals
             /\ userTerminals' = userTerminals
             /\ pty' = pty
             /\ restoredLists(ConnectionEmits(h)) = {SortedSeq(runningOf(u))}
             /\ Count(ConnectionEmits(h),
                      Ev(nextSocket, "terminals-restored", Null, "", << >>,
                         SortedSeq(runningOf(u)), userTerminals[u][1])) = 1
    ]_vars

\* a user with two running sessions and no open connection is about to
\* reconnect, and the restore lists both sessions
C2_Witness ==
  /\ variant = "owner"
  /\ CanConnect
  /\ \E h \in Handshakes :
       /\ connectionsOf(resolveUser(h)) = {}
       /\ Cardinality(runningOf(resolveUser(h))) = 2
       /\ restoredLists(ConnectionEmits(h)) = {<<1, 2>>}

(* -------------------------------- C3 ----------------------------------- *)

\* the sessions a connect restores: those of the list that are registered
restoredSessions(list) ==
  {list[i] : i \in {j \in 1..Len(list) : list[j] \in DOMAIN terminals}}

\* the last min(Len(s), k) elements of s
Suffix(s, k) ==
  LET n == IF Len(s) < k THEN Len(s) ELSE k
  IN [i \in 1..n |-> s[Len(s) - n + i]]

\* C3: on a connect that finds existing sessions, the connecting connection
\* is sent, for every restored session, a terminal-history event whose
\* payload is the last min(total, C) characters of everything the session's
\* process has emitted.  (In the broadcast variant, where the output is on
\* record, the payload is compared for the sessions that have emitted
\* something; server.js keeps no record of the output and the statement is
\* that the event is sent.)
C3_HistoryReplayed ==
  /\ (variant = "owner" /\ CanConnect) =>
       \A h \in Handshakes :
         \A t \in restoredSessions(userTerminals[resolveUser(h)]) :
           \E e \in Events(ConnectionEmits(h),
                           LAMBDA x : x.ev = "terminal-history") :
             e.termId = t /\ e.to = nextSocket
  /\ (variant = "broadcast" /\ CanConnect) =>
       \A t \in restoredSessions(terminalList) :
         emitted[t] # << >> =>
           \E e \in Events(ConnectionEmitsB,
                           LAMBDA x : x.ev = "terminal-history") :
             /\ e.termId = t
             /\ e.to = nextSocket
             /\ e.data = Suffix(emitted[t], MAX_HISTORY_SIZE)

(* -------------------------------- C4 ----------------------------------- *)

\* C4: broadcast variant.  After every append of the onData handler the
\* history of a session is at most MAX_HISTORY_SIZE long and is the suffix
\* of length min(total, MAX_HISTORY_SIZE) of all the chunks appended so far.
C4_HistoryIsSuffix ==
  variant = "broadcast" =>
    \A t \in DOMAIN terminals :
      /\ Len(terminals[t].history) <= MAX_HISTORY_SIZE
      /\ terminals[t].history = Suffix(emitted[t], MAX_HISTORY_SIZE)

\* a session has emitted more than the capacity and its history is full
C4_Witness ==
  /\ variant = "broadcast"
  /\ \E t \in DOMAIN terminals :
       /\ Len(emitted[t]) > MAX_HISTORY_SIZE
       /\ Len(terminals[t].history) = MAX_HISTORY_SIZE

(* -------------------------------- C5 ----------------------------------- *)

\* the terminal-closed events the exit handler of session t emits
closedEvents(t) ==
  IF variant = "owner" THEN OnExitEmits(t) ELSE OnExitEmitsB(t)

\* the session list t is kept in
listOf(t) ==
  IF variant = "owner" THEN userTerminals[pty[t].userId] ELSE terminalList

\* a session whose exit has been processed is in no registry and in no list
ExitedIsGone ==
  \A t \in DOMAIN pty :
    pty[t].state = "exited" =>
      /\ t \notin DOMAIN terminals
      /\ \A u \in Users : Count(userTerminals[u], t) = 0
      /\ Count(terminalList, t) = 0

\* C5 as claimed: the exit of a session killed by an authorized
\* close-terminal sends exactly one terminal-closed notification.  The
\* exit handler runs once per pty, so the notifications of a session are
\* the ones its exit handler emits in the state the exit is processed in.
C5_ExactlyOneNotification ==
  \A t \in DOMAIN pty :
    pty[t].state = "killed" => Len(closedEvents(t)) = 1

\* a close-terminal request for a session whose exit has been processed
\* calls no pty
LateCloseCallsNothing ==
  \A t \in DOMAIN pty :
    pty[t].state = "exited" =>
      \A s \in sockets :
        IF variant = "owner"
          THEN CloseTerminalCalls(s, t) = << >>
          ELSE CloseTerminalCallsB(s, t) = << >>

\* C5 as amended: the exit of a session killed by an authorized
\* close-terminal sends at most one terminal-closed notification (in the
\* owner-affinity variant exactly one when its owner has a routing binding
\* and none when it has not; in the broadcast variant one io.emit) and
\* removes the id exactly once from the registry and from its session list;
\* afterwards the id is in no registry or list, and a close-terminal
\* request for it changes no state and calls no pty.
C5_KillExitOnce ==
  /\ [][ StateChanges =>
           /\ \A t \in DOMAIN pty :
                (pty[t].state = "killed" /\ (OnExit(t) \/ OnExitB(t))) =>
                  /\ Len(closedEvents(t)) <= 1
                  /\ \A i \in 1..Len(closedEvents(t)) :
                       /\ closedEvents(t)[i].ev = "terminal-closed"
                       /\ closedEvents(t)[i].termId = t
                  /\ variant = "owner" =>
                       (Len(closedEvents(t)) = 1 <=> userToSocket[pty[t].userId] # Null)
                  /\ variant = "broadcast" => Len(closedEvents(t)) = 1
                  /\ t \in DOMAIN terminals
                  /\ t \notin DOMAIN terminals'
                  /\ Count(listOf(t), t) = 1
                  /\ Count(listOf(t)', t) = 0
           /\ \A t \in DOMAIN pty :
                pty[t].state = "exited" =>
                  \A s \in sockets :
                    (CloseTerminal(s, t) \/ CloseTerminalB(s, t)) => UNCHANGED vars
       ]_vars
  /\ []ExitedIsGone
  /\ []LateCloseCallsNothing

\* an authorized close-terminal has killed a session, and its owner has no
\* routing binding: its exit will notify nobody
C5_Witness ==
  /\ variant = "owner"
  /\ \E t \in DOMAIN pty :
       /\ pty[t].state = "killed"
       /\ userToSocket[pty[t].userId] = Null
       /\ closedEvents(t) = << >>

(* -------------------------------- C6 ----------------------------------- *)

\* what the other open connections are told by get-terminals, and what the
\* next connection of each user is told by the restore
ToldToOthers(s) ==
  IF variant = "owner"
    THEN <<[s2 \in sockets \ {s} |-> GetTerminalsEmits(s2)]>>
    ELSE <<[s2 \in sockets \ {s} |-> GetTerminalsEmitsB(s2)],
           IF CanConnect /\ Len(terminalList) > 0
             THEN ConnectionEmitsB ELSE << >> >>

\* C6: a switch-terminal request, also one that names an unknown id,
\* changes no routing binding, no registry entry and no session list, and
\* nothing that another connection is told by get-terminals or
\* terminals-restored.
C6_SwitchIsLocal ==
  [][ \A s \in SocketIds, t \in RequestTermIds :
        (SwitchTerminal(s, t) \/ SwitchTerminalB(s, t)) =>
          /\ UNCHANGED <<userToSocket, terminals, userTerminals, terminalList,
                         socketToUser, pty>>
          /\ ToldToOthers(s)' = ToldToOthers(s)
    ]_vars

(* -------------------------------- C7 ----------------------------------- *)

\* C7: a disconnect kills no process and removes no session: the registry,
\* every session list and every pty are the same before and after it, in
\* both variants.  In the owner-affinity variant it changes only the
\* disconnecting connection's own entries of socketToUser and
\* activeTerminals and, when it is the binding, its user's binding.
C7_DisconnectKeepsSessions ==
  [][ \A s \in SocketIds :
        (Disconnect(s) \/ DisconnectB(s)) =>
          /\ UNCHANGED <<terminals, termCounter, userTerminals, terminalList,
                         activeTermId, pty>>
          /\ sockets' = sockets \ {s}
          /\ variant = "owner" =>
               /\ socketToUser' = deleteKey(socketToUser, s)
               /\ activeTerminals' = deleteKey(activeTerminals, s)
               /\ \A u \in Users :
                    \/ userToSocket'[u] = userToSocket[u]
                    \/ /\ u = socketToUser[s]
                       /\ userToSocket[u] = s
                       /\ userToSocket'[u] = Null
    ]_vars

\* every connection has disconnected and a session is still registered
\* with its process running
C7_Witness ==
  /\ nextSocket > 1
  /\ sockets = {}
  /\ \E t \in DOMAIN terminals : alive(t) /\ Count(listOf(t), t) = 1

(* -------------------------------- C8 ----------------------------------- *)

\* the isInitial announcements among es
initialEvents(es) ==
  Events(es, LAMBDA e : e.ev = "terminal-created" /\ e.flag = "isInitial")

\* C8: a connect creates exactly one session, announced with isInitial,
\* when the connecting user's list (owner-affinity) or the shared list
\* (broadcast) is empty, and creates none when the list is not empty.
C8_DefaultSessionOnConnect ==
  [][ /\ \A h \in Handshakes :
           Connection(h) =>
             LET u == resolveUser(h)
                 new == termCounter + 1
             IN IF userTerminals[u] = << >>
                  THEN /\ termCounter' = new
                       /\ DOMAIN terminals' = DOMAIN terminals \cup {new}
                       /\ new \notin DOMAIN terminals
                       /\ userTerminals' = [userTerminals EXCEPT ![u] = <<new>>]
                       /\ DOMAIN pty' = DOMAIN pty \cup {new}
                       /\ initialEvents(ConnectionEmits(h))
                            = {Ev(nextSocket, "terminal-created", new,
                                  "isInitial", << >>, << >>, Null)}
                  ELSE /\ UNCHANGED <<termCounter, terminals, userTerminals, pty>>
                       /\ initialEvents(ConnectionEmits(h)) = {}
      /\ ConnectionB =>
           LET new == termCounter + 1
           IN IF terminalList = << >>
                THEN /\ termCounter' = new
                     /\ DOMAIN terminals' = DOMAIN terminals \cup {new}
                     /\ new \notin DOMAIN terminals
                     /\ terminalList' = <<new>>
                     /\ DOMAIN pty' = DOMAIN pty \cup {new}
                     /\ initialEvents(ConnectionEmitsB)
                          = {Ev(ALL, "terminal-created", new, "isInitial",
                                << >>, << >>, Null)}
                ELSE /\ UNCHANGED <<termCounter, terminals, terminalList, pty>>
                     /\ initialEvents(ConnectionEmitsB) = {}
    ]_vars

\* two connections of one user have arrived one after the other and the
\* user has the one default session
C8_Witness ==
  /\ variant = "owner"
  /\ sockets = {1, 2}
  /\ socketToUser[1] = socketToUser[2]
  /\ termCounter = 1
  /\ userTerminals[socketToUser[1]] = <<1>>

(* -------------------------------- C9 ----------------------------------- *)

\* the terminal-output and terminal-closed events session t can cause now
deliveries(t) == OnDataEmits(t, chunk(0, 1)) \o OnExitEmits(t)

\* C9: owner-affinity.  In every reachable state a terminal-output or
\* terminal-closed event of a session goes only to an open connection whose
\* user id is the session's owner.
C9_DeliveredToOwnerOnly ==
  variant = "owner" =>
    \A t \in DOMAIN terminals :
      alive(t) =>
        \A i \in 1..Len(deliveries(t)) :
          LET to == deliveries(t)[i].to
          IN /\ to \in sockets
             /\ socketToUser[to] = terminals[t].userId

\* a session's events are delivered to its owner's connection while a
\* connection of another user is open
C9_Witness ==
  /\ variant = "owner"
  /\ \E t \in DOMAIN terminals :
       /\ alive(t)
       /\ Len(deliveries(t)) = 2
       /\ \E s \in sockets : socketToUser[s] # terminals[t].userId

(* -------------------------------- C10 ---------------------------------- *)

\* C10 as claimed: a binding that is present is the most recently connected
\* of the user's open connections (socket ids are handed out in the order
\* of the connects).
C10_BindingIsNewest ==
  variant = "owner" =>
    \A u \in Users :
      userToSocket[u] # Null =>
        /\ connectionsOf(u) # {}
        /\ userToSocket[u] = Max(connectionsOf(u))

\* C10 as amended: a binding that is present is an open connection of the
\* user; a connect binds the connecting connection, a create-terminal
\* request binds the requesting connection (also an older one, while a
\* newer one is open), and no other step moves a binding to a connection.
C10_BindingFollowsConnectAndCreate ==
  [][ variant = "owner" =>
        /\ \A h \in Handshakes :
             Connection(h) => userToSocket'[resolveUser(h)] = nextSocket
        /\ \A s \in SocketIds :
             CreateTerminal(s) => userToSocket'[socketToUser[s]] = s
        /\ \A u \in Users :
             (userToSocket'[u] # userToSocket[u] /\ userToSocket'[u] # Null) =>
               \/ \E h \in Handshakes : Connection(h) /\ resolveUser(h) = u
               \/ \E s \in SocketIds : CreateTerminal(s) /\ socketToUser[s] = u
        /\ \A u \in Users :
             userToSocket'[u] # Null => userToSocket'[u] \in connectionsOf(u)'
    ]_vars

\* the binding of a user is the older of the user's two open connections
C10_Witness ==
  /\ variant = "owner"
  /\ sockets = {1, 2}
  /\ socketToUser[1] = socketToUser[2]
  /\ userToSocket[socketToUser[1]] = 1

(* -------------------------------- C11 ---------------------------------- *)

\* the session t is registered and its recorded owner is the user of
\* connection s
ownedBy(s, t) == t \in DOMAIN terminals /\ terminals[t].userId = socketToUser[s]

\* what the three requests of connection s that name t call on ptys
requestCalls(s, t) ==
  <<TerminalInputCalls(s, t), TerminalResizeCalls(s, t), CloseTerminalCalls(s, t)>>

\* in this state every request of an open connection reaches a pty only
\* when the named session is registered and owned by the connection's user,
\* and then it reaches the pty of the named session only
OnlyOwnerReachesPty ==
  \A s \in sockets, t \in RequestTermIds :
    IF ownedBy(s, t)
      THEN requestCalls(s, t)
             = << <<Call("write", t)>>, <<Call("resize", t)>>, <<Call("kill", t)>> >>
      ELSE requestCalls(s, t) = << << >>, << >>, << >> >>

\* C11: owner-affinity.  A terminal-input, terminal-resize or close-terminal
\* request calls write, resize or kill on a pty only if the named session is
\* in the registry and its owner is the requesting connection's user; a
\* request that names an unknown session or a session of another user
\* changes no state and calls no pty, and an authorized close-terminal
\* changes nothing but the state of the pty it kills.
C11_OnlyOwnerReachesProcess ==
  /\ [][ (variant = "owner" /\ StateChanges) =>
           \A s \in sockets, t \in RequestTermIds :
             (CloseTerminal(s, t) \/ TerminalInput(s, t) \/ TerminalResize(s, t)) =>
               /\ ~ownedBy(s, t) => UNCHANGED vars
               /\ \A x \in DOMAIN pty : x # t => pty'[x] = pty[x]
               /\ UNCHANGED <<terminals, userTerminals, userToSocket,
                              activeTerminals, socketToUser, sockets>>
       ]_vars
  /\ [](variant = "owner" => OnlyOwnerReachesPty)

\* connections of two users are open, a session of the one is running, and
\* the requests of the other that name it call nothing while the owner's do
C11_Witness ==
  /\ variant = "owner"
  /\ \E s1 \in sockets, s2 \in sockets, t \in DOMAIN terminals :
       /\ socketToUser[s1] # socketToUser[s2]
       /\ ownedBy(s1, t)
       /\ pty[t].state = "killed"
       /\ requestCalls(s1, t)[3] = <<Call("kill", t)>>
       /\ requestCalls(s2, t) = << << >>, << >>, << >> >>

(* -------------------------------- C12 ---------------------------------- *)

\* the terminals-list event get-terminals sends to connection s
listedTo(s) ==
  IF variant = "owner" THEN GetTerminalsEmits(s)[1] ELSE GetTerminalsEmitsB(s)[1]

\* the sessions that remain for connection s: the ones of its user
\* (owner-affinity) or all of them (broadcast) whose exit has not been processed
remainingFor(s) ==
  IF variant = "owner"
    THEN runningOf(socketToUser[s])
    ELSE {t \in DOMAIN pty : alive(t)}

\* the sessions of connection s whose exit has been processed
exitedFor(s) ==
  {t \in DOMAIN pty :
     /\ pty[t].state = "exited"
     /\ variant = "owner" => pty[t].userId = socketToUser[s]}

\* C12: after the exit of a session has been processed, get-terminals of
\* any open connection of its owner reports exactly the remaining sessions,
\* and when one remains the reported active id is one of the reported
\* sessions; with two sessions and the first one closed, the second is the
\* only entry and is reported as active.
C12_ListAfterExit ==
  \A s \in sockets :
    exitedFor(s) # {} =>
      /\ listedTo(s).termIds = SortedSeq(remainingFor(s))
      /\ remainingFor(s) # {} =>
           /\ listedTo(s).active \in remainingFor(s)
           /\ listedTo(s).active \notin exitedFor(s)
      /\ (exitedFor(s) = {1} /\ remainingFor(s) = {2}) =>
           /\ listedTo(s).termIds = <<2>>
           /\ listedTo(s).active = 2

(* -------------------------------- C13 ---------------------------------- *)

\* C13: owner-affinity.  In every reachable state a binding userToSocket[u]
\* that is present is the id of a connection that has connected and not yet
\* disconnected, and the user id of that connection is u.
C13_BindingIsOpenConnection ==
  variant = "owner" =>
    \A u \in Users :
      userToSocket[u] # Null =>
        /\ userToSocket[u] \in sockets
        /\ userToSocket[u] < nextSocket
        /\ userToSocket[u] \in DOMAIN socketToUser
        /\ socketToUser[userToSocket[u]] = u

\* one user's bound connection has disconnected, which has cleared that
\* user's binding, while another user is bound to its open connection
C13_Witness ==
  /\ variant = "owner"
  /\ \E u1 \in Users, u2 \in Users :
       /\ u1 # u2
       /\ userTerminals[u1] # << >>
       /\ connectionsOf(u1) = {}
       /\ userToSocket[u1] = Null
       /\ userToSocket[u2] \in connectionsOf(u2)

(* -------------------------------- C14 ---------------------------------- *)

\* the active pointer a switch-terminal of connection s acts on
activePointer(s) ==
  IF variant = "owner" THEN activeTerminals[s] ELSE activeTermId

\* the session t exists and connection s may switch to it
validTarget(s, t) ==
  /\ t \in DOMAIN terminals
  /\ variant = "owner" => terminals[t].userId = socketToUser[s]

\* C14: a switch-terminal request sets the active pointer to the requested
\* id only if that id is in the registry and (owner-affinity) is owned by
\* the requesting connection's user; a request that names an unknown or
\* foreign session leaves the active pointer as it was.
C14_SwitchValidatesTarget ==
  [][ \A s \in SocketIds, t \in RequestTermIds :
        (SwitchTerminal(s, t) \/ SwitchTerminalB(s, t)) =>
          IF validTarget(s, t)
            THEN activePointer(s)' = t
            ELSE activePointer(s)' = activePointer(s)
    ]_vars

(* -------------------------------- C15 ---------------------------------- *)

\* session t is listed to the open connections that may see it, and to the
\* next connection of its owner
StillListed(t) ==
  IF variant = "owner"
    THEN /\ \A s \in connectionsOf(pty[t].userId) :
              Count(GetTerminalsEmits(s)[1].termIds, t) = 1
         /\ CanConnect =>
              \A h \in Handshakes :
                resolveUser(h) = pty[t].userId =>
                  /\ restoredLists(ConnectionEmits(h)) = {userTerminals[pty[t].userId]}
                  /\ Count(userTerminals[pty[t].userId], t) = 1
                  /\ Count(ConnectionEmits(h),
                           Ev(nextSocket, "terminal-created", t, "isRestored",
                              << >>, << >>, Null)) = 1
    ELSE /\ \A s \in sockets : Count(GetTerminalsEmitsB(s)[1].termIds, t) = 1
         /\ CanConnect =>
              /\ restoredLists(ConnectionEmitsB) = {terminalList}
              /\ Count(terminalList, t) = 1

\* every session whose process has been killed and has not yet exited is
\* registered and listed
KilledStaysListed ==
  \A t \in DOMAIN pty :
    pty[t].state = "killed" => (t \in DOMAIN terminals /\ StillListed(t))

\* C15: an authorized close-terminal request only calls kill() on the pty
\* of the named session: the registry, the session lists, the routing
\* bindings and the active pointers are unchanged by the request; the
\* session stays registered and listed, by get-terminals and by the restore
\* of a connect, until its exit is processed, and the exit removes it.
C15_CloseOnlyKills ==
  /\ [][ StateChanges =>
           /\ \A t \in DOMAIN terminals, s \in sockets :
                ((CloseTerminal(s, t) /\ CloseTerminalCalls(s, t) # << >>)
                   \/ (CloseTerminalB(s, t) /\ CloseTerminalCallsB(s, t) # << >>)) =>
                  /\ UNCHANGED <<terminals, termCounter, userTerminals, terminalList,
                                 userToSocket, activeTerminals, activeTermId,
                                 socketToUser, sockets, emitted>>
                  /\ pty'[t].state = "killed"
                  /\ \A x \in DOMAIN pty : x # t => pty'[x] = pty[x]
           /\ \A t \in DOMAIN pty :
                (OnExit(t) \/ OnExitB(t)) =>
                  /\ t \notin DOMAIN terminals'
                  /\ Count(listOf(t)', t) = 0
       ]_vars
  /\ []KilledStaysListed

\* a session has been killed by a close-terminal request, its exit has not
\* been processed, and an open connection of its owner still has it listed
C15_Witness ==
  \E t \in DOMAIN pty :
    /\ pty[t].state = "killed"
    /\ t \in DOMAIN terminals
    /\ variant = "owner"
    /\ connectionsOf(pty[t].userId) # {}
    /\ StillListed(t)

(* -------------------------------- C16 ---------------------------------- *)

\* the ids that occur in the registry or in a session list
idsInUse ==
  DOMAIN terminals
    \cup UNION {{userTerminals[u][i] : i \in 1..Len(userTerminals[u])} : u \in Users}
    \cup {terminalList[i] : i \in 1..Len(terminalList)}

\* C16: session ids come from a strictly increasing counter and are never
\* reused.  The counter never decreases; a step that registers a session
\* registers one, under the id termCounter + 1, which is larger than every
\* id given before and which no pty ever had; the ptys spawned so far are
\* numbered 1..termCounter, one session each; and the id of a session whose
\* exit has been processed is in no registry and in no session list, whatever
\* connects and create-terminal requests follow.
C16_IdsNeverReused ==
  [][ /\ termCounter' >= termCounter
      /\ \A t \in idsInUse' \ idsInUse :
           /\ t = termCounter + 1
           /\ termCounter' = t
           /\ t \notin DOMAIN pty
           /\ \A x \in DOMAIN pty : x < t
           /\ idsInUse' = idsInUse \cup {t}
      /\ DOMAIN pty' = 1..termCounter'
      /\ \A t \in DOMAIN pty : pty[t].state = "exited" => pty'[t] = pty[t]
      /\ \A t \in DOMAIN pty' : pty'[t].state = "exited" => t \notin idsInUse'
    ]_vars

\* the first session has exited and a session created after that exit is
\* registered under the next id
C16_Witness ==
  /\ 1 \in DOMAIN pty
  /\ pty[1].state = "exited"
  /\ idsInUse = {2}
  /\ termCounter = 2

(* -------------------------------- C17 ---------------------------------- *)

\* the sessions that remain when session t exits
remainingAfter(t) == {x \in DOMAIN pty : alive(x) /\ x # t}

\* the smallest element of a non-empty set of numbers
Min(S) == CHOOSE x \in S : \A y \in S : x <= y

\* C17: broadcast.  When the session that is the shared active session
\* exits, the shared active id becomes the first remaining session in
\* creation order (the one with the smallest id), or null when no session
\* remains; when any other session exits, the shared active id is unchanged.
C17_ActiveFallsBackToFirst ==
  [][ \A t \in SharedTermIds :
        OnExitB(t) =>
          IF activeTermId = t
            THEN activeTermId' = IF remainingAfter(t) = {}
                                   THEN Null
                                   ELSE Min(remainingAfter(t))
            ELSE activeTermId' = activeTermId
    ]_vars

\* three sessions were created, the one created last (the active one when
\* it was created) has exited, and the first of the two that remain is active
C17_Witness ==
  /\ variant = "broadcast"
  /\ DOMAIN pty = {1, 2, 3}
  /\ pty[3].state = "exited"
  /\ terminalList = <<1, 2>>
  /\ activeTermId = 1

(* -------------------------------- C18 ---------------------------------- *)

\* the active fields of the terminals-restored events among es
restoredActives(es) ==
  {e.active : e \in Events(es, LAMBDA e : e.ev = "terminals-restored")}

\* what a connect of user u (owner-affinity) or of anybody (broadcast) in
\* this state is told as the active session by terminals-restored
restoredActiveFor(u) ==
  IF variant = "owner"
    THEN UNION {restoredActives(ConnectionEmits(h)) :
                  h \in {x \in Handshakes : resolveUser(x) = u}}
    ELSE restoredActives(ConnectionEmitsB)

\* C18: a connect that restores existing sessions is told, as the active
\* field of terminals-restored, the session that was active immediately
\* before the connect: the session last created or last switched to by the
\* user (owner-affinity) or by anybody (broadcast), when it is still running.
\* Stated on the step that makes a session the active one: right after a
\* create-terminal, or a switch-terminal to a running session of the user,
\* a connect is told that session.
C18_RestoresPreviouslyActive ==
  [][ /\ \A s \in SocketIds :
           (CreateTerminal(s) /\ CanConnect) =>
             restoredActiveFor(socketToUser[s])' = {termCounter'}
      /\ \A s \in SocketIds, t \in OwnerTermIds :
           (SwitchTerminal(s, t) /\ CanConnect /\ validTarget(s, t) /\ alive(t)) =>
             restoredActiveFor(socketToUser[s])' = {t}
      /\ \A s \in SocketIds :
           (CreateTerminalB(s) /\ CanConnect) =>
             restoredActiveFor(NoUser)' = {termCounter'}
      /\ \A s \in SocketIds, t \in SharedTermIds :
           (SwitchTerminalB(s, t) /\ CanConnect /\ validTarget(s, t) /\ alive(t)) =>
             restoredActiveFor(NoUser)' = {t}
    ]_vars

(* -------------------------------- C19 ---------------------------------- *)

\* C19: the registry and the session lists agree in every reachable state.
\* Owner-affinity: a registered id occurs exactly once in the list of its
\* recorded owner and in no other user's list, and an id that is not
\* registered occurs in no list.  Broadcast: an id is registered if and only
\* if it occurs in terminalList, and then it occurs once.
C19_RegistryMatchesLists ==
  \A t \in idsInUse \cup RequestTermIds :
    /\ variant = "owner" =>
         IF t \in DOMAIN terminals
           THEN \A u \in Users :
                  Count(userTerminals[u], t)
                    = IF u = terminals[t].userId THEN 1 ELSE 0
           ELSE \A u \in Users : Count(userTerminals[u], t) = 0
    /\ variant = "broadcast" =>
         /\ Count(terminalList, t) <= 1
         /\ t \in DOMAIN terminals <=> Count(terminalList, t) = 1

\* two users have had a session each; the one's has exited and is in no
\* list, the other's is registered and in its owner's list
C19_Witness ==
  /\ variant = "owner"
  /\ \E t1 \in DOMAIN pty, t2 \in DOMAIN pty :
       /\ pty[t1].userId # pty[t2].userId
       /\ pty[t1].state = "exited"
       /\ t1 \notin DOMAIN terminals
       /\ t2 \in DOMAIN terminals
       /\ userTerminals[pty[t2].userId] = <<t2>>
       /\ userTerminals[pty[t1].userId] = << >>

(* -------------------------------- C20 ---------------------------------- *)

\* C20: owner-affinity.  Whenever a user has an open connection the user
\* has a routing binding, so that the output of each of the user's running
\* sessions is delivered to a connection of the user and not dropped, also
\* after the bound connection has disconnected while an older connection of
\* the user is open.
C20_BoundWhileConnected ==
  variant = "owner" =>
    \A u \in Users :
      connectionsOf(u) # {} =>
        /\ userToSocket[u] # Null
        /\ \A t \in runningOf(u) :
             /\ OnDataEmits(t, chunk(0, 1)) # << >>
             /\ OnDataEmits(t, chunk(0, 1))[1].to \in connectionsOf(u)

====
